---- MODULE Spec2Model ----
(***************************************************************************)
(* Model of domain_finder_bot.py: a Telegram bot that binds one file URL   *)
(* per chat and searches the file, fetched in chunks, for lines that       *)
(* contain a term as a whole word.                                         *)
(*                                                                         *)
(* Text is a sequence of one-character strings.  Python dictionaries are   *)
(* functions whose DOMAIN is the set of keys present.                      *)
(***************************************************************************)
EXTENDS Integers, Sequences, FiniteSets, TLC

VARIABLES
    user_states,  \* dict chat_id -> 'awaiting_url' | 'url_received'
    user_data,    \* dict chat_id -> dict ('url' -> text)
    run,          \* per thread: the handler call it executes and its locals
    stream,       \* kernel input: the whole text of a source
    chunks,       \* kernel input: the chunks iter_content yields for it
    prev,         \* the call handled before the current one (serial runs)
    term,         \* kernel input: the search term
    result        \* kernel output

vars == <<user_states, user_data, run, prev, stream, chunks, term, result>>

-----------------------------------------------------------------------------
(* Bounds *)

MaxStreamLen == 4
MaxLineLen == 3
MaxTermLen == 2
NumChats == 2

\* the worker threads of telebot.TeleBot(BOT_TOKEN): threaded, two workers
NumThreads == 2
\* chunk_size of iter_content
chunk_size == 1024

-----------------------------------------------------------------------------
(* Characters *)

LF == "\n"
CR == "\r"

Lowers == {"a", "b", "h", "p", "r", "s", "t"}
Uppers == {"A", "B"}
Digits == {"1"}

\* str.isalnum restricted to the model's alphabet
IsAlnum(ch) == ch \in Lowers \cup Uppers \cup Digits

\* the class \w of a str pattern: alphanumerics and the underscore
IsWord(ch) == IsAlnum(ch) \/ ch = "_"

\* a match that compares the characters as they are
Lower_exact(ch) == ch

\* case folding done by re.IGNORECASE
Lower(ch) == CASE ch = "A" -> "a" [] ch = "B" -> "b" [] OTHER -> ch

IsSpace(ch) == ch \in {" ", LF, CR, "\t"}

\* code points of the alphabet, as str.encode('utf-8') writes them
Ord ==
    ("a" :> 97) @@ ("b" :> 98) @@ ("h" :> 104)
    @@ ("p" :> 112) @@ ("r" :> 114) @@ ("s" :> 115) @@ ("t" :> 116) @@ ("A" :> 65) @@ ("B" :> 66)
    @@ ("1" :> 49) @@ ("." :> 46) @@ ("_" :> 95) @@ ("-" :> 45) @@ (" " :> 32)
    @@ (":" :> 58) @@ ("/" :> 47) @@ (LF :> 10) @@ (CR :> 13) @@ ("\t" :> 9)

encode(s) == [i \in 1..Len(s) |-> Ord[s[i]]]

-----------------------------------------------------------------------------
(* str methods *)

RECURSIVE lstrip(_)
lstrip(s) == IF s # <<>> /\ IsSpace(Head(s)) THEN lstrip(Tail(s)) ELSE s

RECURSIVE rstrip(_)
rstrip(s) ==
    IF s # <<>> /\ IsSpace(s[Len(s)]) THEN rstrip(SubSeq(s, 1, Len(s) - 1)) ELSE s

strip(s) == rstrip(lstrip(s))

startswith(s, prefix) ==
    Len(s) >= Len(prefix) /\ SubSeq(s, 1, Len(prefix)) = prefix

\* str.splitlines: a line ends at LF, CR or CR LF; the terminator is dropped
\* and no empty line follows the last terminator
RECURSIVE splitFrom(_, _, _)
splitFrom(s, i, cur) ==
    IF i > Len(s) THEN (IF cur = <<>> THEN <<>> ELSE <<cur>>)
    ELSE IF s[i] = LF THEN <<cur>> \o splitFrom(s, i + 1, <<>>)
    ELSE IF s[i] = CR
         THEN <<cur>> \o splitFrom(s, IF i < Len(s) /\ s[i + 1] = LF
                                      THEN i + 2 ELSE i + 1, <<>>)
    ELSE splitFrom(s, i + 1, Append(cur, s[i]))

splitlines(s) == splitFrom(s, 1, <<>>)

-----------------------------------------------------------------------------
(* re: the pattern r'\b' + re.escape(target_domain) + r'\b' *)

BS == "\\"

\* the characters that are operators of the pattern syntax when not escaped
Specials == {".", "*", "+", "?", "(", "["}

\* a term put into the pattern as it is
re_escape_none(s) == s

\* re.escape: a backslash before every character that is not a word character
RECURSIVE re_escape(_)
re_escape(s) ==
    IF s = <<>> THEN <<>>
    ELSE (IF IsWord(Head(s)) THEN <<Head(s)>> ELSE <<BS, Head(s)>>)
         \o re_escape(Tail(s))

pattern(target_domain) == <<BS, "b">> \o re_escape(target_domain) \o <<BS, "b">>

\* the pattern compiler on the syntax this pattern can contain: \b is the
\* word boundary, a backslash before another character makes it a literal,
\* a bare '.' is any character but a newline, another bare special character
\* is an operator (repetition, group, set), any other character is itself
RECURSIVE compile(_, _)
compile(p, i) ==
    IF i > Len(p) THEN <<>>
    ELSE IF p[i] = BS /\ i < Len(p)
         THEN (IF p[i + 1] = "b"
               THEN <<[op |-> "boundary", ch |-> ""]>>
               ELSE <<[op |-> "literal", ch |-> p[i + 1]]>>) \o compile(p, i + 2)
    ELSE IF p[i] = "."
         THEN <<[op |-> "any", ch |-> ""]>> \o compile(p, i + 1)
    ELSE IF p[i] \in Specials
         THEN <<[op |-> "operator", ch |-> p[i]]>> \o compile(p, i + 1)
    ELSE <<[op |-> "literal", ch |-> p[i]]>> \o compile(p, i + 1)

\* \b at offset pos: exactly one of the two neighbours is a word character
at_boundary(line, pos) ==
    (pos > 0 /\ IsWord(line[pos])) # (pos < Len(line) /\ IsWord(line[pos + 1]))

RECURSIVE match_at(_, _, _, _)
match_at(atoms, k, line, pos) ==
    IF k > Len(atoms) THEN TRUE
    ELSE CASE atoms[k].op = "boundary" ->
                at_boundary(line, pos) /\ match_at(atoms, k + 1, line, pos)
           [] atoms[k].op = "literal" ->
                /\ pos < Len(line)
                /\ Lower(line[pos + 1]) = Lower(atoms[k].ch)
                /\ match_at(atoms, k + 1, line, pos + 1)
           [] atoms[k].op = "any" ->
                /\ pos < Len(line)
                /\ line[pos + 1] # LF
                /\ match_at(atoms, k + 1, line, pos + 1)
           \* an operator is not interpreted: no escaped term compiles to one
           [] OTHER -> FALSE

\* re.search(pattern, line, re.IGNORECASE) is not None
re_search(target_domain, line) ==
    LET atoms == compile(pattern(target_domain), 1)
    IN \E pos \in 0..Len(line) : match_at(atoms, 1, line, pos)

-----------------------------------------------------------------------------
(* Messages the bot sends: send_message texts and the send_document file *)

Msg(kind, n, data, name) == [kind |-> kind, count |-> n, data |-> data, name |-> name]

-----------------------------------------------------------------------------
(* The search of handle_domain_and_search *)

\* what requests.get / iter_content do for one search: 'status' is "ok" or
\* the failure of get/raise_for_status; body is the chunk sequence;
\* decoded is FALSE when the response has no encoding, so that
\* decode_unicode yields bytes; broken is TRUE when the connection fails
\* after the chunks of body were yielded
Fetch(status, body, decoded, broken) ==
    [status |-> status, body |-> body, decoded |-> decoded, broken |-> broken]

NewAcc == [tested |-> <<>>, found_lines_stream |-> <<>>, found_lines_count |-> 0]

\* the body of the inner loop for one line
scan_line(line, target_domain, acc) ==
    IF re_search(target_domain, line)
    THEN [tested |-> Append(acc.tested, line),
          found_lines_stream |-> acc.found_lines_stream \o encode(Append(line, LF)),
          found_lines_count |-> acc.found_lines_count + 1]
    ELSE [acc EXCEPT !.tested = Append(@, line)]

RECURSIVE scan_lines(_, _, _, _)
scan_lines(lines, k, target_domain, acc) ==
    IF k > Len(lines) THEN acc
    ELSE scan_lines(lines, k + 1, target_domain, scan_line(lines[k], target_domain, acc))

\* one iteration of the chunk loop
scan_chunk(chunk, target_domain, acc) ==
    IF chunk # <<>>
    THEN scan_lines(splitlines(chunk), 1, target_domain, acc)
    ELSE acc

RECURSIVE scan_chunks(_, _, _, _)
scan_chunks(body, k, target_domain, acc) ==
    IF k > Len(body) THEN acc
    ELSE scan_chunks(body, k + 1, target_domain, scan_chunk(body[k], target_domain, acc))

\* a report that sends the file whatever the count
report_any_count(target_domain, acc) ==
    <<Msg("found", acc.found_lines_count, <<>>, <<>>),
      Msg("document", 0, acc.found_lines_stream, target_domain)>>

\* the report after the loop
report(target_domain, acc) ==
    IF acc.found_lines_count > 0
    THEN <<Msg("found", acc.found_lines_count, <<>>, <<>>),
           Msg("document", 0, acc.found_lines_stream, target_domain)>>
    ELSE <<Msg("no_lines", 0, <<>>, target_domain)>>

\* the message of the except clause that handles the exception
\* except clauses that send nothing
handler_silent(raised) == <<>>

handler_of(raised) ==
    IF raised = "RequestException"
    THEN <<Msg("fetch_error", 0, <<>>, <<>>)>>
    ELSE <<Msg("unexpected_error", 0, <<>>, <<>>)>>

\* the file data left by the finished calls of the threads, as a buffer
\* shared by all searches would hold it
RECURSIVE leftover(_)
leftover(w) ==
    IF w = 0 THEN <<>>
    ELSE LET out == run[w].out
             docs == {i \in 1..Len(out) : out[i].kind = "document"}
         IN (IF docs = {} THEN <<>> ELSE out[CHOOSE i \in docs : TRUE].data)
            \o leftover(w - 1)

\* a search that accumulates into a buffer shared by all searches
try_search_shared_buffer(fetch, target_domain) ==
    LET acc == scan_chunks(fetch.body, 1, target_domain,
                           [NewAcc EXCEPT !.found_lines_stream = leftover(NumThreads)])
        Out(e, o, a) ==
            [raised |-> e, out |-> o, tested |-> a.tested, count |-> a.found_lines_count]
    IN IF fetch.status # "ok"
       THEN Out("RequestException", handler_of("RequestException"), NewAcc)
       ELSE IF ~fetch.decoded /\ \E i \in 1..Len(fetch.body) : fetch.body[i] # <<>>
       THEN Out("TypeError", handler_of("TypeError"), NewAcc)
       ELSE IF fetch.broken
       THEN Out("RequestException", handler_of("RequestException"), acc)
       ELSE Out("", report(target_domain, acc), acc)

\* a search that still reports what it found when the connection is lost
try_search_partial(fetch, target_domain) ==
    LET acc == scan_chunks(fetch.body, 1, target_domain, NewAcc)
        Out(e, o, a) ==
            [raised |-> e, out |-> o, tested |-> a.tested, count |-> a.found_lines_count]
    IN IF fetch.status # "ok"
       THEN Out("RequestException", handler_of("RequestException"), NewAcc)
       ELSE IF ~fetch.decoded /\ \E i \in 1..Len(fetch.body) : fetch.body[i] # <<>>
       THEN Out("TypeError", handler_of("TypeError"), NewAcc)
       ELSE IF fetch.broken
       THEN Out("RequestException",
                handler_of("RequestException") \o report(target_domain, acc), acc)
       ELSE Out("", report(target_domain, acc), acc)

\* the try statement: the exception raised in it ("" for none), the messages
\* sent, the lines tested and the count.  get and raise_for_status raise a
\* RequestException on a failure; a chunk of bytes makes re.search raise a
\* TypeError on its first line; a lost connection raises a RequestException
\* out of iter_content after the chunks that arrived
try_search(fetch, target_domain) ==
    LET acc == scan_chunks(fetch.body, 1, target_domain, NewAcc)
        Out(e, o, a) ==
            [raised |-> e, out |-> o, tested |-> a.tested, count |-> a.found_lines_count]
    IN IF fetch.status # "ok"
       THEN Out("RequestException", handler_of("RequestException"), NewAcc)
       ELSE IF ~fetch.decoded /\ \E i \in 1..Len(fetch.body) : fetch.body[i] # <<>>
       THEN Out("TypeError", handler_of("TypeError"), NewAcc)
       ELSE IF fetch.broken
       THEN Out("RequestException", handler_of("RequestException"), acc)
       ELSE Out("", report(target_domain, acc), acc)

-----------------------------------------------------------------------------
(* Kernel inputs *)

Min(S) == CHOOSE x \in S : \A y \in S : x <= y

SeqsUpTo(S, n) == UNION {[1..k -> S] : k \in 0..n}

\* the chunks of s when it is cut after the positions in cuts
RECURSIVE Pieces(_, _, _)
Pieces(s, cuts, from) ==
    IF from > Len(s) THEN <<>>
    ELSE LET later == {c \in cuts : c >= from}
             end == IF later = {} THEN Len(s) ELSE Min(later)
         IN <<SubSeq(s, from, end)>> \o Pieces(s, cuts, end + 1)

InsertAt(cs, k, c) == SubSeq(cs, 1, k) \o <<c>> \o SubSeq(cs, k + 1, Len(cs))

\* every cut of s into non-empty chunks, and each with one empty chunk added
Chunkings(s) ==
    LET all == {Pieces(s, cuts, 1) : cuts \in SUBSET (1..(Len(s) - 1))}
        cut == {cs \in all : \A k \in 1..Len(cs) : Len(cs[k]) <= chunk_size}
    IN cut \cup UNION {{InsertAt(cs, k, <<>>) : k \in 0..Len(cs)} : cs \in cut}

Concat(cs) ==
    LET RECURSIVE cat(_)
        cat(k) == IF k > Len(cs) THEN <<>> ELSE cs[k] \o cat(k + 1)
    IN cat(1)

ScanChars == {"a", "b", LF, CR}
ScanTerms == {<<"a">>, <<"a", "b">>}

MatchChars == {"a", "A", "1", ".", "_", "-", " "}
MatchTerms == SeqsUpTo(MatchChars, MaxTermLen) \ {<<>>}

\* terms and lines over the special characters of the pattern syntax
LiteralChars == {"a", "A"} \cup Specials
LiteralTerms == SeqsUpTo(LiteralChars, MaxTermLen) \ {<<>>}

\* terms and lines over letters of both cases
CaseChars == {"a", "A", "b", "."}
CaseTerms == SeqsUpTo(CaseChars, MaxTermLen) \ {<<>>}

NoResult == [phase |-> "input", matched |-> FALSE, tested |-> <<>>, count |-> 0, out |-> <<>>]

-----------------------------------------------------------------------------
(* Dictionaries and the handlers' statements *)

EmptyDict == << >>

\* dict.get(key): the value, or None; None and '' are both <<>> here, as the
\* only use of the value is the test 'not url'
dict_get(d, key) == IF key \in DOMAIN d THEN d[key] ELSE <<>>

\* d[key] = value
dict_set(d, key, value) == (key :> value) @@ d

Chats == 1..NumChats
Threads == 1..NumThreads
MainThread == 1

StartText == <<"/", "s", "t", "a", "r", "t">>
UrlA == <<"h", "t", "t", "p", ":", "/", "/", "a">>
UrlB == <<"h", "t", "t", "p", "s", ":", "/", "/", "b">>
TermA == <<"a">>
TermAB == <<"a", "b">>

\* the texts a user sends: the command, a URL, a URL with blanks around it
\* and two terms (which are also texts that are not URLs)
Texts == {StartText, UrlA, <<" ">> \o UrlB \o <<" ">>, TermA, <<" ">> \o TermAB}

\* what a fetch can do: fail at once, or yield an empty source, a source in
\* one chunk or the same source cut inside a line; each of these as text or
\* as bytes, to the end or with the connection lost after the last chunk
Bodies == {<<>>, <<TermAB>>, <<<<"a">>, <<"b">>>>}
Fetches ==
    {Fetch("http_error", <<>>, TRUE, FALSE), Fetch("timeout", <<>>, TRUE, FALSE)}
    \cup {Fetch("ok", b, TRUE, FALSE) : b \in Bodies}
    \cup {Fetch("ok", <<TermAB>>, FALSE, FALSE), Fetch("ok", <<<<"a">>, <<"b">>>>, TRUE, TRUE)}

\* the first whitespace-delimited word of a text
RECURSIVE first_word(_)
first_word(s) ==
    IF s = <<>> \/ IsSpace(Head(s)) THEN <<>> ELSE <<Head(s)>> \o first_word(Tail(s))

\* commands=['start']: the text is a command and its first word is /start
is_start(text) == text # <<>> /\ Head(text) = "/" /\ first_word(text) = StartText

\* a dispatch whose URL handler also accepts a URL sent by a Ready chat
route_url_when_ready(states, chat_id, text) ==
    IF is_start(text) THEN "handle_start"
    ELSE IF /\ chat_id \in DOMAIN states
            /\ states[chat_id] = "awaiting_url" \/ startswith(strip(text), <<"h", "t", "t", "p">>)
         THEN "handle_url"
    ELSE IF chat_id \in DOMAIN states /\ states[chat_id] = "url_received"
         THEN "handle_domain_and_search"
    ELSE "none"

\* the handler the message is given to: the first registered handler whose
\* filter accepts it
route(states, chat_id, text) ==
    IF is_start(text) THEN "handle_start"
    ELSE IF chat_id \in DOMAIN states /\ states[chat_id] = "awaiting_url" THEN "handle_url"
    ELSE IF chat_id \in DOMAIN states /\ states[chat_id] = "url_received"
         THEN "handle_domain_and_search"
    ELSE "none"

\* a /start that leaves the state of a chat that already has one
start_40_new_chat_only(states, chat_id) ==
    IF chat_id \in DOMAIN states THEN states ELSE dict_set(states, chat_id, "awaiting_url")

\* a /start that keeps the data of a chat that already has some
start_41_keep_data(data, chat_id) ==
    IF chat_id \in DOMAIN data THEN data ELSE dict_set(data, chat_id, EmptyDict)

\* a /start that empties the data of every chat
start_41_all_chats(data, chat_id) == [c \in DOMAIN data \cup {chat_id} |-> EmptyDict]

\* handle_start
start_40(states, chat_id) == dict_set(states, chat_id, "awaiting_url")
start_41(data, chat_id) == dict_set(data, chat_id, EmptyDict)

\* handle_url
\* a check that knows the prefix http:// only
url_valid_http_only(url) == startswith(url, <<"h", "t", "t", "p", ":", "/", "/">>)

url_valid(url) ==
    startswith(url, <<"h", "t", "t", "p", ":", "/", "/">>)
    \/ startswith(url, <<"h", "t", "t", "p", "s", ":", "/", "/">>)
\* a store of the URL under another key
url_61_other_key(data, chat_id, url) ==
    dict_set(data, chat_id, dict_set(data[chat_id], "link", url))
url_61(data, chat_id, url) == dict_set(data, chat_id, dict_set(data[chat_id], "url", url))
url_62(states, chat_id) == dict_set(states, chat_id, "url_received")

\* handle_domain_and_search
search_76(data, chat_id) == dict_get(data[chat_id], "url")

\* a handler call: the handler, where it is, its message, its locals url and
\* found_lines_count, the exception raised in its try statement, and the
\* messages it has sent
Call(handler, pc, chat_id, text, url, raised, count, out) ==
    [handler |-> handler, pc |-> pc, chat_id |-> chat_id, text |-> text,
     url |-> url, raised |-> raised, count |-> count, out |-> out]

Idle == Call("none", "idle", 0, <<>>, <<>>, "", 0, <<>>)

Say(kind) == Msg(kind, 0, <<>>, <<>>)

Kinds(out) == {out[i].kind : i \in 1..Len(out)}

\* what is remembered of the call handled before the current one
Summary(call) == [handler |-> call.handler, chat_id |-> call.chat_id, kinds |-> Kinds(call.out)]

-----------------------------------------------------------------------------
(* The results of the handlers *)

start_result(chat_id, text) ==
    Call("handle_start", "done", chat_id, text, <<>>, "", 0, <<Say("welcome")>>)

url_rejected(chat_id, text) ==
    Call("handle_url", "done", chat_id, text, strip(text), "", 0,
         <<Say("invalid_url")>>)

\* user_data[chat_id] raises KeyError: the handler ends there
url_raised(chat_id, text) ==
    Call("handle_url", "raised", chat_id, text, strip(text), "", 0, <<>>)

url_result(chat_id, text) ==
    Call("handle_url", "done", chat_id, text, strip(text), "", 0,
         <<Say("url_thanks")>>)

search_no_url(chat_id, text) ==
    Call("handle_domain_and_search", "done", chat_id, text, <<>>, "", 0,
         <<Say("restart")>>)

search_started(chat_id, text, url) ==
    Call("handle_domain_and_search", "l90", chat_id, text, url, "", 0,
         <<Msg("searching", 0, <<>>, strip(text))>>)

search_result(chat_id, text, url, fetch) ==
    LET target_domain == strip(text)
        r == try_search(fetch, target_domain)
    IN Call("handle_domain_and_search", "done", chat_id, text, url, r.raised,
            r.count,
            <<Msg("searching", 0, <<>>, target_domain)>> \o r.out)

-----------------------------------------------------------------------------
(* Handlers run one at a time, each to completion *)

Init ==
    /\ user_states = EmptyDict
    /\ user_data = EmptyDict
    /\ run = [w \in Threads |-> Idle]
    /\ prev = Summary(Idle)
    /\ stream = <<>>
    /\ chunks = <<>>
    /\ term = <<>>
    /\ result = NoResult

Finish(call) ==
    /\ run' = [run EXCEPT ![MainThread] = call]
    /\ prev' = Summary(run[MainThread])
    /\ UNCHANGED <<stream, chunks, term, result>>

HandleStart(chat_id, text) ==
    /\ route(user_states, chat_id, text) = "handle_start"
    /\ user_states' = start_40(user_states, chat_id)
    /\ user_data' = start_41(user_data, chat_id)
    /\ Finish(start_result(chat_id, text))

HandleUrl(chat_id, text) ==
    /\ route(user_states, chat_id, text) = "handle_url"
    /\ IF ~url_valid(strip(text))
       THEN /\ Finish(url_rejected(chat_id, text))
            /\ UNCHANGED <<user_states, user_data>>
       ELSE IF chat_id \notin DOMAIN user_data
       THEN /\ Finish(url_raised(chat_id, text))
            /\ UNCHANGED <<user_states, user_data>>
       ELSE /\ user_data' = url_61(user_data, chat_id, strip(text))
            /\ user_states' = url_62(user_states, chat_id)
            /\ Finish(url_result(chat_id, text))

HandleSearch(chat_id, text, fetch) ==
    /\ route(user_states, chat_id, text) = "handle_domain_and_search"
    /\ LET url == search_76(user_data, chat_id)
       IN IF url = <<>>
          THEN Finish(search_no_url(chat_id, text))
          ELSE Finish(search_result(chat_id, text, url, fetch))
    /\ UNCHANGED <<user_states, user_data>>

\* no handler accepts the message: nothing runs
Unhandled(chat_id, text) ==
    /\ route(user_states, chat_id, text) = "none"
    /\ Finish(Call("none", "done", chat_id, text, <<>>, "", 0, <<>>))
    /\ UNCHANGED <<user_states, user_data>>

Next ==
    \E chat_id \in Chats, text \in Texts :
        \/ HandleStart(chat_id, text)
        \/ HandleUrl(chat_id, text)
        \/ \E fetch \in Fetches : HandleSearch(chat_id, text, fetch)
        \/ Unhandled(chat_id, text)

Spec == Init /\ [][Next]_vars

-----------------------------------------------------------------------------
(* Handlers run on the worker threads of the bot: the polling thread tests  *)
(* the filters and hands the call to a free worker; the workers' statements *)
(* interleave                                                               *)

Free(w) == run[w].pc \in {"idle", "done", "raised"}

Step(w, call) ==
    /\ run' = [run EXCEPT ![w] = call]
    /\ UNCHANGED <<prev, stream, chunks, term, result>>

Dispatch(w, chat_id, text) ==
    /\ Free(w)
    /\ LET handler == route(user_states, chat_id, text)
           pc == CASE handler = "handle_start" -> "l40"
                   [] handler = "handle_url" -> "l53"
                   [] handler = "handle_domain_and_search" -> "l76"
                   [] OTHER -> "done"
       IN Step(w, Call(handler, pc, chat_id, text, <<>>, "", 0, <<>>))
    /\ UNCHANGED <<user_states, user_data>>

Start40(w) ==
    /\ run[w].pc = "l40"
    /\ user_states' = start_40(user_states, run[w].chat_id)
    /\ Step(w, [run[w] EXCEPT !.pc = "l41"])
    /\ UNCHANGED user_data

Start41(w) ==
    /\ run[w].pc = "l41"
    /\ user_data' = start_41(user_data, run[w].chat_id)
    /\ Step(w, start_result(run[w].chat_id, run[w].text))
    /\ UNCHANGED user_states

Url53(w) ==
    /\ run[w].pc = "l53"
    /\ LET chat_id == run[w].chat_id
           text == run[w].text
       IN IF ~url_valid(strip(text))
          THEN Step(w, url_rejected(chat_id, text)) /\ UNCHANGED user_data
          ELSE IF chat_id \notin DOMAIN user_data
          THEN Step(w, url_raised(chat_id, text)) /\ UNCHANGED user_data
          ELSE /\ user_data' = url_61(user_data, chat_id, strip(text))
               /\ Step(w, [run[w] EXCEPT !.pc = "l62", !.url = strip(text)])
    /\ UNCHANGED user_states

Url62(w) ==
    /\ run[w].pc = "l62"
    /\ user_states' = url_62(user_states, run[w].chat_id)
    /\ Step(w, url_result(run[w].chat_id, run[w].text))
    /\ UNCHANGED user_data

Search76(w) ==
    /\ run[w].pc = "l76"
    /\ LET chat_id == run[w].chat_id
           url == search_76(user_data, chat_id)
       IN IF url = <<>>
          THEN Step(w, search_no_url(chat_id, run[w].text))
          ELSE Step(w, search_started(chat_id, run[w].text, url))
    /\ UNCHANGED <<user_states, user_data>>

Search90(w, fetch) ==
    /\ run[w].pc = "l90"
    /\ Step(w, search_result(run[w].chat_id, run[w].text, run[w].url, fetch))
    /\ UNCHANGED <<user_states, user_data>>

ThreadedNext ==
    \E w \in Threads :
        \/ \E chat_id \in Chats, text \in Texts : Dispatch(w, chat_id, text)
        \/ Start40(w)
        \/ Start41(w)
        \/ Url53(w)
        \/ Url62(w)
        \/ Search76(w)
        \/ \E fetch \in Fetches : Search90(w, fetch)

ThreadedSpec == Init /\ [][ThreadedNext]_vars

-----------------------------------------------------------------------------
(* Searches of Ready chats on the worker threads *)

\* the texts sent as search terms
SearchTexts == {TermA, <<" ">> \o TermAB}

SearchInit ==
    /\ user_states = [c \in Chats |-> "url_received"]
    /\ user_data \in [Chats -> {("url" :> UrlA), ("url" :> UrlB)}]
    /\ run = [w \in Threads |-> Idle]
    /\ prev = Summary(Idle)
    /\ stream = <<>>
    /\ chunks = <<>>
    /\ term = <<>>
    /\ result = NoResult

SearchNext ==
    \E w \in Threads :
        \/ \E chat_id \in Chats, text \in SearchTexts : Dispatch(w, chat_id, text)
        \/ Search76(w)
        \/ \E fetch \in Fetches : Search90(w, fetch)

SearchSpec == SearchInit /\ [][SearchNext]_vars

\* a worker thread that has taken a handler call runs it on: each step of a
\* search is taken once it is enabled (the fetch ends, by its data or by an
\* exception of requests)
SearchFairness ==
    \A w \in Threads :
        /\ WF_vars(Search76(w))
        /\ WF_vars(\E fetch \in Fetches : Search90(w, fetch))

SearchFairSpec == SearchSpec /\ SearchFairness

-----------------------------------------------------------------------------
(* The search kernel on every stream, chunking and term *)

ScanInit ==
    /\ user_states = EmptyDict
    /\ user_data = EmptyDict
    /\ run = [w \in Threads |-> Idle]
    /\ prev = Summary(Idle)
    /\ stream \in SeqsUpTo(ScanChars, MaxStreamLen)
    /\ chunks \in Chunkings(stream)
    /\ term \in ScanTerms
    /\ result = NoResult

Scan ==
    /\ result.phase = "input"
    /\ LET r == try_search(Fetch("ok", chunks, TRUE, FALSE), term)
       IN result' = [phase |-> "searched", matched |-> FALSE, tested |-> r.tested,
                     count |-> r.count, out |-> r.out]
    /\ UNCHANGED <<user_states, user_data, run, prev, stream, chunks, term>>

ScanNext == Scan

ScanSpec == ScanInit /\ [][ScanNext]_vars

-----------------------------------------------------------------------------
(* The match test on every line and term *)

MatchInit ==
    /\ user_states = EmptyDict
    /\ user_data = EmptyDict
    /\ run = [w \in Threads |-> Idle]
    /\ prev = Summary(Idle)
    /\ stream \in SeqsUpTo(MatchChars, MaxLineLen)
    /\ chunks = <<>>
    /\ term \in MatchTerms
    /\ result = NoResult

Match ==
    /\ result.phase = "input"
    /\ result' = [phase |-> "matched", matched |-> re_search(term, stream),
                  tested |-> <<stream>>, count |-> 0, out |-> <<>>]
    /\ UNCHANGED <<user_states, user_data, run, prev, stream, chunks, term>>

MatchNext == Match

MatchSpec == MatchInit /\ [][MatchNext]_vars

\* the match of one line, for terms that contain special characters
LiteralInit ==
    /\ user_states = EmptyDict
    /\ user_data = EmptyDict
    /\ run = [w \in Threads |-> Idle]
    /\ prev = Summary(Idle)
    /\ stream \in SeqsUpTo(LiteralChars, MaxLineLen)
    /\ chunks = <<>>
    /\ term \in LiteralTerms
    /\ result = NoResult

LiteralSpec == LiteralInit /\ [][MatchNext]_vars

\* the match of one line, for terms and lines with letters of both cases
CaseInit ==
    /\ user_states = EmptyDict
    /\ user_data = EmptyDict
    /\ run = [w \in Threads |-> Idle]
    /\ prev = Summary(Idle)
    /\ stream \in SeqsUpTo(CaseChars, MaxLineLen)
    /\ chunks = <<>>
    /\ term \in CaseTerms
    /\ result = NoResult

CaseSpec == CaseInit /\ [][MatchNext]_vars

-----------------------------------------------------------------------------
(* Properties of the search kernel *)

\* the lines of the whole stream that the match test accepts
RECURSIVE matching(_, _)
matching(lines, target_domain) ==
    IF lines = <<>> THEN <<>>
    ELSE (IF re_search(target_domain, Head(lines)) THEN <<Head(lines)>> ELSE <<>>)
         \o matching(Tail(lines), target_domain)

\* the file that holds the given lines, each followed by a newline
RECURSIVE artifact(_)
artifact(lines) ==
    IF lines = <<>> THEN <<>> ELSE encode(Append(Head(lines), LF)) \o artifact(Tail(lines))

Documents(out) == {i \in 1..Len(out) : out[i].kind = "document"}

\* C1: for every stream and every cut of it into chunks, the lines the search
\* loop tests are the lines of the whole stream split at its line terminators
C1_LinesIndependentOfChunking ==
    result.phase = "searched" => result.tested = splitlines(stream)

\* C2: a search that completes reports as count the number N of lines of the
\* whole stream that match, and for N > 0 delivers exactly those N lines, each
\* followed by a newline, in source order
C2_CountAndArtifactOfWholeStream ==
    result.phase = "searched" =>
        LET hits == matching(splitlines(stream), term)
        IN /\ result.count = Len(hits)
           /\ Len(hits) > 0 =>
                /\ Cardinality(Documents(result.out)) = 1
                /\ \A i \in Documents(result.out) : result.out[i].data = artifact(hits)

\* an occurrence of the term in the line, letter case ignored, with no
\* alphanumeric character right before it and none right after it
BoundedOccurrence(line, t) ==
    \E i \in 1..(Len(line) - Len(t) + 1) :
        /\ \A j \in 1..Len(t) : Lower(line[i + j - 1]) = Lower(t[j])
        /\ i = 1 \/ ~IsAlnum(line[i - 1])
        /\ i + Len(t) > Len(line) \/ ~IsAlnum(line[i + Len(t)])

\* C3: the match test is true exactly when the line has an occurrence of the
\* term, letter case ignored, delimited on both sides by a non-alphanumeric
\* character or an end of the line
C3_MatchIsAlnumBounded ==
    result.phase = "matched" => (result.matched <=> BoundedOccurrence(stream, term))

-----------------------------------------------------------------------------
(* Properties of the sessions *)

Cur == run[MainThread]

state_of(states, chat_id) == IF chat_id \in DOMAIN states THEN states[chat_id] ELSE "idle"

SearchDone(call) == call.handler = "handle_domain_and_search" /\ call.pc = "done"

Errors == {"fetch_error", "unexpected_error", "restart"}

\* C4: a search delivers a document only if its count is at least 1, and a
\* search that completes with count 0 sends the 'No lines' report and no
\* document
C4_DocumentOnlyWithMatches ==
    \A w \in Threads :
        SearchDone(run[w]) =>
            /\ Documents(run[w].out) # {} => run[w].count >= 1
            /\ (run[w].count = 0 /\ Kinds(run[w].out) \cap Errors = {}) =>
                  /\ "no_lines" \in Kinds(run[w].out)
                  /\ Documents(run[w].out) = {}

C4_ZeroMatchesReported ==
    \E w \in Threads :
        /\ SearchDone(run[w])
        /\ run[w].raised = ""
        /\ run[w].count = 0
        /\ "no_lines" \in Kinds(run[w].out)

\* the fetch of the call raised a RequestException
FetchFailed(call) ==
    call.handler = "handle_domain_and_search" /\ call.raised = "RequestException"

HttpPrefixed(text) ==
    LET url == strip(text)
    IN Len(url) >= 7 /\ (SubSeq(url, 1, 7) = SubSeq(UrlA, 1, 7)
                         \/ SubSeq(url, 1, 8) = SubSeq(UrlB, 1, 8))

\* C5 as stated: when the search of a chat has failed on its fetch and the
\* next message of that chat is a source reference, the chat has that
\* reference bound afterwards
C5_CorrectedReferenceIsBound ==
    [][(/\ FetchFailed(Cur)
        /\ run'[MainThread].chat_id = Cur.chat_id
        /\ HttpPrefixed(run'[MainThread].text))
       => dict_get(user_data'[Cur.chat_id], "url") = strip(run'[MainThread].text)]_vars

\* C5 amended: when the search of a chat has failed on its fetch, the chat is
\* still Ready with the failed reference; the next message of that chat, a
\* corrected reference included, is searched for as a term in the stored
\* reference and changes neither dictionary, unless it is /start, which
\* leaves the chat awaiting a URL with none stored
C5_CorrectedReferenceIsSearched ==
    [][(/\ FetchFailed(Cur)
        /\ run'[MainThread].chat_id = Cur.chat_id
        /\ <<run, prev>>' # <<run, prev>>)
       => LET c == Cur.chat_id
              next == run'[MainThread]
          IN /\ state_of(user_states, c) = "url_received"
             /\ dict_get(user_data[c], "url") = Cur.url
             /\ IF is_start(next.text)
                THEN /\ next.handler = "handle_start"
                     /\ state_of(user_states', c) = "awaiting_url"
                     /\ user_data'[c] = EmptyDict
                ELSE /\ next.handler = "handle_domain_and_search"
                     /\ next.url = Cur.url
                     /\ UNCHANGED <<user_states, user_data>>]_vars

C5_UrlSentAfterFailedFetch ==
    /\ prev.handler = "handle_domain_and_search"
    /\ "fetch_error" \in prev.kinds
    /\ prev.chat_id = Cur.chat_id
    /\ SearchDone(Cur)
    /\ HttpPrefixed(Cur.text)
    /\ strip(Cur.text) # Cur.url
    /\ user_data[Cur.chat_id]["url"] = Cur.url

\* C6 as stated: a chat goes from 'awaiting_url' to 'url_received' only in
\* a step in which an acquisition of the reference succeeded, and after a
\* failed acquisition the chat is 'awaiting_url' and the failure is reported
C6_ReadyOnlyAfterAcquisition ==
    [][\A c \in Chats :
        /\ (state_of(user_states, c) = "awaiting_url"
            /\ state_of(user_states', c) = "url_received")
           => (SearchDone(run'[MainThread]) /\ run'[MainThread].url # <<>>
               /\ run'[MainThread].raised = "")
        /\ (FetchFailed(run'[MainThread]) /\ run'[MainThread].chat_id = c)
           => /\ state_of(user_states', c) = "awaiting_url"
              /\ "fetch_error" \in Kinds(run'[MainThread].out)]_vars

\* C6 amended: a chat goes from 'awaiting_url' to 'url_received' exactly
\* when handle_url receives a text that, stripped, starts with http:// or
\* https://; the stripped text is stored and nothing is fetched.  The
\* reference is first fetched by a search, and after a failed fetch the chat
\* is still 'url_received' with the same URL and the failure is reported
C6_ReadyOnValidSyntaxAlone ==
    [][\A c \in Chats :
        LET next == run'[MainThread]
        IN /\ (state_of(user_states, c) = "awaiting_url"
               /\ state_of(user_states', c) = "url_received")
              => /\ next.handler = "handle_url" /\ next.chat_id = c
                 /\ HttpPrefixed(next.text)
                 /\ dict_get(user_data'[c], "url") = strip(next.text)
                 /\ next.raised = ""
                 /\ Kinds(next.out) = {"url_thanks"}
           /\ (state_of(user_states, c) = "awaiting_url" /\ next.chat_id = c
               /\ next.handler = "handle_url" /\ HttpPrefixed(next.text)
               /\ <<run, prev>>' # <<run, prev>>)
              => state_of(user_states', c) = "url_received"
           /\ (FetchFailed(next) /\ next.chat_id = c)
              => /\ state_of(user_states', c) = "url_received"
                 /\ dict_get(user_data'[c], "url") = next.url
                 /\ Kinds(next.out) = {"searching", "fetch_error"}]_vars

C6_FailedFetchWhileReady ==
    /\ FetchFailed(Cur)
    /\ Cur.pc = "done"
    /\ "fetch_error" \in Kinds(Cur.out)
    /\ prev.handler = "handle_url"
    /\ prev.chat_id = Cur.chat_id
    /\ "url_thanks" \in prev.kinds
    /\ state_of(user_states, Cur.chat_id) = "url_received"

\* C7: when handlers run one at a time, a chat in 'url_received' has exactly
\* one stored URL, and a chat with no state or in 'awaiting_url' has none
C7_UrlStoredIffReady ==
    \A c \in Chats :
        IF state_of(user_states, c) = "url_received"
        THEN /\ c \in DOMAIN user_data
             /\ DOMAIN user_data[c] = {"url"}
             /\ user_data[c]["url"] # <<>>
        ELSE c \in DOMAIN user_data => user_data[c] = EmptyDict

C7_ReadyChatAndResetChat ==
    \E c1, c2 \in Chats :
        /\ state_of(user_states, c1) = "url_received"
        /\ state_of(user_states, c2) = "awaiting_url"
        /\ Cur.handler = "handle_start" /\ Cur.chat_id = c2
        /\ prev.handler = "handle_url" /\ prev.chat_id = c2
        /\ "url_thanks" \in prev.kinds

\* C8: a chat in 'url_received' stays there with the same URL in every step
\* that does not handle a /start of that chat, and a step of
\* handle_domain_and_search changes neither user_states nor user_data
C8_ReadyUntilStart ==
    [][/\ \A c \in Chats :
            (/\ state_of(user_states, c) = "url_received"
             /\ ~(run'[MainThread].handler = "handle_start"
                  /\ run'[MainThread].chat_id = c))
            => /\ state_of(user_states', c) = "url_received"
               /\ user_data'[c] = user_data[c]
       /\ run'[MainThread].handler = "handle_domain_and_search"
            => UNCHANGED <<user_states, user_data>>]_vars

C8_SearchedAgainAfterFailure ==
    /\ SearchDone(Cur)
    /\ "document" \in Kinds(Cur.out)
    /\ prev.handler = "handle_domain_and_search"
    /\ prev.chat_id = Cur.chat_id
    /\ "fetch_error" \in prev.kinds
    /\ state_of(user_states, Cur.chat_id) = "url_received"
    /\ user_data[Cur.chat_id]["url"] = Cur.url

\* C9: after handle_start the chat is 'awaiting_url' with no stored URL,
\* whatever it was before; the next message of the chat is never searched,
\* and a search uses the URL stored at that time
C9_StartResets ==
    /\ Cur.handler = "handle_start" =>
          /\ state_of(user_states, Cur.chat_id) = "awaiting_url"
          /\ user_data[Cur.chat_id] = EmptyDict
    /\ (prev.handler = "handle_start" /\ prev.chat_id = Cur.chat_id) =>
          Cur.handler \in {"handle_start", "handle_url"}
    /\ SearchDone(Cur) =>
          /\ Cur.url # <<>>
          /\ Cur.url = dict_get(user_data[Cur.chat_id], "url")

C9_StartOfReadyChat ==
    /\ Cur.handler = "handle_start"
    /\ prev.handler = "handle_domain_and_search"
    /\ prev.chat_id = Cur.chat_id
    /\ "document" \in prev.kinds
    /\ state_of(user_states, Cur.chat_id) = "awaiting_url"

\* a handler that has executed a statement and has not returned
Executing(w) == run[w].pc \in {"l41", "l62", "l90"}

\* C10: no two handlers of one chat execute at the same time
C10_HandlersSerializedPerChat ==
    \A w1, w2 \in Threads :
        (w1 # w2 /\ Executing(w1) /\ Executing(w2)) => run[w1].chat_id # run[w2].chat_id

-----------------------------------------------------------------------------
(* Properties of concurrent and failing searches *)

\* the text of file data: the character of each code point
decode(data) == [i \in 1..Len(data) |-> CHOOSE ch \in DOMAIN Ord : Ord[ch] = data[i]]

DocumentOf(out) == out[CHOOSE i \in Documents(out) : TRUE]

\* the result of a completed search holds only lines that match its own term
OwnResult(call) ==
    LET target_domain == strip(call.text)
    IN IF call.count = 0
       THEN Kinds(call.out) = {"searching", "no_lines"}
       ELSE /\ Kinds(call.out) = {"searching", "found", "document"}
            /\ Cardinality(Documents(call.out)) = 1
            /\ \A i \in 1..Len(call.out) :
                  call.out[i].kind = "found" => call.out[i].count = call.count
            /\ LET lines == splitlines(decode(DocumentOf(call.out).data))
               IN /\ Len(lines) = call.count
                  /\ \A i \in 1..Len(lines) : re_search(target_domain, lines[i])
                  /\ DocumentOf(call.out).data = artifact(lines)

\* C11: a Ready chat is searched again and again, also by searches that run
\* at the same time, and the count and the file of each search that completes
\* hold only lines that match its own term: the file has exactly count lines
C11_OnlyOwnLines ==
    \A w \in Threads :
        (SearchDone(run[w]) /\ run[w].url # <<>> /\ run[w].raised = "") => OwnResult(run[w])

C11_TwoSearchesOfOneChat ==
    \E w1, w2 \in Threads :
        /\ w1 # w2
        /\ SearchDone(run[w1]) /\ SearchDone(run[w2])
        /\ run[w1].chat_id = run[w2].chat_id
        /\ run[w1].url = run[w2].url
        /\ strip(run[w1].text) # strip(run[w2].text)
        /\ "document" \in Kinds(run[w1].out)
        /\ "document" \in Kinds(run[w2].out)

\* C12: a search whose fetch fails, at once or after chunks were scanned and
\* lines were accumulated, sends the error report and no document
C12_NoDocumentAfterFailedFetch ==
    \A w \in Threads :
        (SearchDone(run[w]) /\ FetchFailed(run[w])) =>
            /\ Len(run[w].out) = 2
            /\ run[w].out[1].kind = "searching"
            /\ run[w].out[2].kind = "fetch_error"
            /\ Documents(run[w].out) = {}

C12_FailedAfterMatches ==
    \E w \in Threads :
        /\ SearchDone(run[w])
        /\ FetchFailed(run[w])
        /\ run[w].count > 0
        /\ "fetch_error" \in Kinds(run[w].out)

\* the data of a chat, empty when the chat has none
data_of(data, chat_id) == IF chat_id \in DOMAIN data THEN data[chat_id] ELSE EmptyDict

\* C13: a text that is not a command, handled for a chat that has no bound
\* source and is not awaiting a URL, is answered by the message that tells
\* the user to use /start, and nothing is fetched
C13_NoSourceAnsweredWithRestart ==
    (/\ Cur.pc = "done"
     /\ ~is_start(Cur.text)
     /\ state_of(user_states, Cur.chat_id) # "awaiting_url"
     /\ dict_get(data_of(user_data, Cur.chat_id), "url") = <<>>)
    => /\ Kinds(Cur.out) = {"restart"}
       /\ Cur.raised = ""

\* the entries of a chat in the two dictionaries
Entries(states, data, c) ==
    <<c \in DOMAIN states, state_of(states, c), c \in DOMAIN data, data_of(data, c)>>

Failed(summary) ==
    /\ summary.handler = "handle_domain_and_search"
    /\ summary.kinds \cap {"fetch_error", "unexpected_error"} # {}

\* C14: a handler run for one chat, whether it ends well or in an error,
\* leaves the entries of every other chat as they were, and a search that
\* completes right after a failed search of another chat has its own result
C14_OtherChatsUntouched ==
    [][/\ \A c \in Chats :
            c # run'[MainThread].chat_id =>
                Entries(user_states', user_data', c) = Entries(user_states, user_data, c)
       /\ (/\ Failed(prev')
           /\ prev'.chat_id # run'[MainThread].chat_id
           /\ SearchDone(run'[MainThread])
           /\ run'[MainThread].raised = "")
          => OwnResult(run'[MainThread])]_vars

C14_SearchAfterFailureElsewhere ==
    /\ Failed(prev)
    /\ prev.chat_id # Cur.chat_id
    /\ state_of(user_states, prev.chat_id) = "url_received"
    /\ SearchDone(Cur)
    /\ "document" \in Kinds(Cur.out)

-----------------------------------------------------------------------------
(* Properties of the term as a literal *)

\* s occurs in line as a contiguous run of characters, up to letter case
Occurs(s, line) ==
    \E pos \in 0..(Len(line) - Len(s)) :
        \A i \in 1..Len(s) : Lower(line[pos + i]) = Lower(s[i])

\* C15: the term is matched as a literal: between the two boundaries the
\* compiled pattern is the term's characters one by one, with no operator in
\* it (so nothing in the term can make the compilation fail), and a line that
\* matches contains the exact character sequence of the term up to case
C15_TermIsLiteral ==
    result.phase = "matched" =>
        LET atoms == compile(pattern(term), 1)
        IN /\ Len(atoms) = Len(term) + 2
           /\ atoms[1].op = "boundary"
           /\ atoms[Len(atoms)].op = "boundary"
           /\ \A i \in 1..Len(term) :
                atoms[i + 1] = [op |-> "literal", ch |-> term[i]]
           /\ result.matched => Occurs(term, stream)

C15_SpecialTermMatched ==
    /\ result.phase = "matched"
    /\ result.matched
    /\ \E i \in 1..Len(term) : term[i] \in Specials

SwapCase(ch) ==
    CASE ch = "a" -> "A" [] ch = "A" -> "a" [] ch = "b" -> "B" [] ch = "B" -> "b"
      [] OTHER -> ch

\* s with any of its letters replaced by the letter of the other case
Variants(s) == {v \in [1..Len(s) -> CaseChars \cup {"B"}] :
                   \A i \in 1..Len(s) : v[i] \in {s[i], SwapCase(s[i])}}

\* C16: replacing letters of the term or of the line by their other-case
\* form does not change whether the line matches
C16_CaseInsensitive ==
    result.phase = "matched" =>
        \A t \in Variants(term), line \in Variants(stream) :
            re_search(t, line) = result.matched

C16_MatchedAcrossCase ==
    /\ result.phase = "matched"
    /\ result.matched
    /\ \A pos \in 0..(Len(stream) - Len(term)) :
          \E i \in 1..Len(term) : stream[pos + i] # term[i]

-----------------------------------------------------------------------------
(* Properties of interleaved handlers and of termination *)

\* C17: with handlers interleaved on the worker threads, a chat is never
\* left, when all handlers have finished, in 'url_received' with no stored
\* URL, and no handler ends in the KeyError of a missing user_data entry
C17_NoTornSession ==
    /\ (\A w \in Threads : Free(w)) =>
          \A c \in Chats :
              state_of(user_states, c) = "url_received" =>
                  dict_get(data_of(user_data, c), "url") # <<>>
    /\ \A w \in Threads : run[w].pc # "raised"

\* the messages of a search that end it: the document, the 'no lines'
\* report, an error report
Outcomes(out) ==
    {i \in 1..Len(out) :
        out[i].kind \in {"document", "no_lines", "fetch_error", "unexpected_error"}}

Searching(w) ==
    run[w].handler = "handle_domain_and_search" /\ run[w].pc \in {"l76", "l90"}

\* C18: every search started for a chat with a stored URL finishes, and it
\* finishes with exactly one of: the document, the 'no lines' report, an
\* error report
C18_SearchEndsWithOneOutcome ==
    \A w \in Threads :
        /\ [](SearchDone(run[w]) => Cardinality(Outcomes(run[w].out)) = 1)
        /\ Searching(w) ~> SearchDone(run[w])

C18_SearchEndedUnexpectedly ==
    \E w \in Threads :
        /\ SearchDone(run[w])
        /\ run[w].raised = "TypeError"
        /\ Cardinality(Outcomes(run[w].out)) = 1

\* C19: the URL handler accepts a text exactly when, stripped, it starts with
\* http:// or https://: an accepted text is stored stripped and the chat
\* becomes 'url_received'; a rejected one leaves the chat in 'awaiting_url'
\* with no URL stored and is answered by the request for a valid URL
C19_UrlSyntaxDecides ==
    (Cur.handler = "handle_url" /\ Cur.pc = "done") =>
        IF HttpPrefixed(Cur.text)
        THEN /\ state_of(user_states, Cur.chat_id) = "url_received"
             /\ dict_get(data_of(user_data, Cur.chat_id), "url") = strip(Cur.text)
             /\ Cur.out = <<Say("url_thanks")>>
        ELSE /\ state_of(user_states, Cur.chat_id) = "awaiting_url"
             /\ dict_get(data_of(user_data, Cur.chat_id), "url") = <<>>
             /\ Cur.out = <<Say("invalid_url")>>

C19_AcceptedAfterRejected ==
    /\ prev.handler = "handle_url"
    /\ "invalid_url" \in prev.kinds
    /\ Cur.handler = "handle_url"
    /\ Cur.chat_id = prev.chat_id
    /\ Cur.text # strip(Cur.text)
    /\ state_of(user_states, Cur.chat_id) = "url_received"

====
